---- MODULE Spec2Model ----
(***************************************************************************)
(* baseSocket of rsocket-go (src/rsocket.go, package socket): the lease     *)
(* gate in front of the five interaction models and the once-only close     *)
(* sequence with its close hooks.                                           *)
(*                                                                          *)
(* Callers are goroutines using one *baseSocket.  A request is two steps    *)
(* (the lease check, then the call into the duplex socket) so that          *)
(* concurrent requests interleave as goroutines do.  The duplex socket,     *)
(* the logger and the leaser are collaborators whose code is not part of    *)
(* src/rsocket.go: the duplex socket and the logger are modelled by what    *)
(* they are handed, the leaser by sections 4.3 and 5 of the specification.  *)
(*                                                                          *)
(* Two more parts of the file stand beside it: AbstractRSocket with the     *)
(* handler options of NewAbstractSocket (packages rsocket and socket), and  *)
(* ParseURI (package transport), a function of its string.                  *)
(***************************************************************************)
EXTENDS Integers, Sequences, FiniteSets, Bags, TLC

\* ------------------------------------------------------------------ bounds
NumCallers == 2      \* goroutines sharing the socket
MaxTime == 1         \* the clock runs 0..MaxTime
MaxTTL == 1          \* ttl of a refresh, in clock ticks
MaxQuota == 2        \* number of requests of a refresh
MaxHooks == 2        \* close hooks registered in one behaviour
MaxOpts == 2         \* options handed to one NewAbstractSocket
MaxPortLen == 3      \* digits of the short port texts handed to ParseURI

Callers == 1..NumCallers

\* a close hook: a func(error) that returns ("ok"), raises a fault ("panic")
\* or calls Close on the socket it is registered with ("reclose"); late is
\* history: OnClose was handed the hook after the close sequence had ended
HookKinds == {"ok", "panic", "reclose"}
HookIds == 1..MaxHooks
NilFn == [id |-> 0, kind |-> "nil", late |-> FALSE]

\* what the duplex socket's Close returns
CloseResults == {"nil", "EOF"}
\* payload.Payload values handed to the dispatch methods
Msgs == {"m1"}
TTLs == 0..MaxTTL
Quotas == 0..MaxQuota

VARIABLES
    now,        \* time.Now()
    reqLease,   \* baseSocket.reqLease: NoLease is the nil pointer
    calls,      \* the bag of requests past the lease check and not yet at the
                \* duplex socket, one per goroutine that is inside one
    last,       \* history: the dispatch that returned last
    refreshed,  \* history: refreshLease has been called
    quota,      \* history: n of the last refreshLease
    spent,      \* history: dispatches the lease allowed since the last refreshLease
    fwd,        \* history: request-style calls the installed lease was consulted for
                \* since the last refreshLease and that reached the duplex socket
    closers,    \* baseSocket.closers: the hooks, in the order they were appended
    once,       \* baseSocket.once: "idle", "running" (inside Do) or "done"
    pc,         \* per goroutine: where it is in OnClose or Close
    fn,         \* per goroutine: the hook its OnClose is appending
    tmp,        \* per goroutine: the slice its append read
    loop,       \* i, l, err of the close sequence, the goroutine running it (by)
                \* and how its Close ended (out: "-" while it has not)
    ret,        \* per goroutine: what its last Close returned ("-" before any)
    nextId,     \* history: hooks handed to OnClose so far
    registered, \* history: the hooks in the order their appends were stored
    closed,     \* duplex socket: what its Close returned, once per call of it
    hookLog,    \* history: the hooks invoked, in order, each with its argument
    recovered,  \* logger: the hooks whose fault the close sequence caught
    atBegin,    \* history: the hook list when the first Close began
    clobbered,  \* history: since the first Close began, an append has stored over
                \* a hook list other than the one it had read
    sk,         \* the *AbstractRSocket NewAbstractSocket returned: FF, MP, RR, RS, RC
                \* (NoAbstractRSocket before it is built)
    opts,       \* history: the options NewAbstractSocket was handed, in order
    alast,      \* history: the last method call on sk
    uri,        \* the string ParseURI was handed last
    parsed      \* what that ParseURI returned: the *URI and the error

leaseVars == <<now, reqLease, calls, last, refreshed, quota, spent, fwd>>
closeVars == <<closers, once, pc, fn, tmp, loop, ret, nextId, registered, closed,
               hookLog, recovered, atBegin, clobbered>>
abstractVars == <<sk, opts, alast>>
uriVars == <<uri, parsed>>
libVars == <<abstractVars, uriVars>>
vars == <<leaseVars, closeVars, libVars>>

\* ------------------------------------------------------------------ leaser
\* errors of leaser.allow(); "nil" is the nil error
NoErr == "nil"
ErrExpired == "lease expired"
ErrExhausted == "lease exhausted"

NoLease == [installed |-> FALSE, deadline |-> 0, remaining |-> 0]

newLeaser(deadline, n) == [installed |-> TRUE, deadline |-> deadline, remaining |-> n]

refresh(l, deadline, n) == [l EXCEPT !.deadline = deadline, !.remaining = n]

\* the error allow() returns on lease l at time t
allow(l, t) ==
    IF ~l.installed THEN NoErr
    ELSE IF t >= l.deadline THEN ErrExpired
    ELSE IF l.remaining = 0 THEN ErrExhausted
    ELSE NoErr

\* the lease allow() leaves behind: one unit less when it allowed
allowed(l, t) ==
    IF l.installed /\ allow(l, t) = NoErr
    THEN [l EXCEPT !.remaining = l.remaining - 1]
    ELSE l

\* ------------------------------------------------------------------ results
\* mono.Mono and flux.Flux values, by what they carry
NoRet == [type |-> "-", err |-> NoErr, val |-> <<"-", "-">>]

\* mono.Error(err), flux.Error(err): an already-failed result
Failed(type, err) == [type |-> type, err |-> err, val |-> <<"-", "-">>]

RetType(op) == IF op = "RR" THEN "mono" ELSE IF op \in {"RS", "RC"} THEN "flux" ELSE "-"

\* what the duplex socket's method op returns for argument m
DuplexResult(op, m) == [type |-> RetType(op), err |-> NoErr, val |-> <<op, m>>]

\* history: how the lease stood when a dispatch looked at it
LeaseState(l, t) ==
    IF ~l.installed THEN "none"
    ELSE IF t >= l.deadline THEN "expired"
    ELSE IF l.remaining = 0 THEN "exhausted"
    ELSE "live"

\* A dispatch: the method (op), its argument, the lease as it stood (gate), the
\* error of allow() (err), what logger.Warnf was handed (logged), the units of
\* quota the dispatch took (took), the arguments the duplex socket's method
\* was handed (sent), the value returned to the caller (ret), and whether an
\* installed lease was consulted since the last refreshLease (fresh).
NoCall ==
    [op |-> "-", stage |-> "idle", arg |-> "-", gate |-> "none", err |-> NoErr,
     logged |-> NoErr, took |-> 0, sent |-> <<>>, ret |-> NoRet, fresh |-> FALSE]

RequestOps == {"RR", "RS", "RC"}
GatedOps == {"FF"} \cup RequestOps

\* ------------------------------------------------------------------ abstract socket values
\* the five interaction models, by the name of their field in AbstractRSocket
Models == {"FF", "MP", "RR", "RS", "RC"}

\* handler functions an option may be built with; NilHandler is the nil func
Handlers == {"h1", "h2"}
NilHandler == "nil"

errUnsupportedMetadataPush == "unsupported METADATA_PUSH"
errUnsupportedFireAndForget == "unsupported FIRE_AND_FORGET"
errUnsupportedRequestResponse == "unsupported REQUEST_RESPONSE"
errUnsupportedRequestStream == "unsupported REQUEST_STREAM"
errUnsupportedRequestChannel == "unsupported REQUEST_CHANNEL"

\* no abstract socket has been built
NoAbstractRSocket == [FF |-> "-", MP |-> "-", RR |-> "-", RS |-> "-", RC |-> "-"]

\* &socket.AbstractRSocket{}: every handler is nil
ZeroAbstractRSocket ==
    [FF |-> NilHandler, MP |-> NilHandler, RR |-> NilHandler, RS |-> NilHandler,
     RC |-> NilHandler]

\* A method call on the abstract socket: the model (op), the argument, what
\* logger.Errorf was handed (logged), the handler calls made (called) and the
\* value returned (ret).
NoACall == [op |-> "-", arg |-> "-", logged |-> NoErr, called |-> <<>>, ret |-> NoRet]

\* ------------------------------------------------------------------ URI values
\* Strings are sequences of one-character strings.  A Go int is written as
\* its decimal numeral, a sequence of digits without leading zeros: the int
\* of the build is 64 bits wide.
\* the nil *URI
NilURI == [proto |-> "-", host |-> <<>>, port |-> <<>>]

\* ParseURI has not been called
NotParsed == [uri |-> NilURI, err |-> "-"]

\* ------------------------------------------------------------------ construction
\* a constructor that starts the socket with an empty lease
newBaseSocket_leased == [reqLease |-> newLeaser(0, 0), closers |-> <<>>, once |-> "idle"]

\* newBaseSocket sets the duplex socket only: reqLease is the nil pointer,
\* closers the nil slice and once the zero sync.Once
newBaseSocket == [reqLease |-> NoLease, closers |-> <<>>, once |-> "idle"]

NoLoop == [i |-> 0, l |-> 0, err |-> "nil", by |-> 0, out |-> "-"]

Init ==
    /\ now = 0
    /\ reqLease = newBaseSocket.reqLease
    /\ calls = EmptyBag
    /\ last = NoCall
    /\ refreshed = FALSE
    /\ quota = 0
    /\ spent = 0
    /\ fwd = 0
    /\ closers = newBaseSocket.closers
    /\ once = newBaseSocket.once
    /\ pc = [p \in Callers |-> "idle"]
    /\ fn = [p \in Callers |-> NilFn]
    /\ tmp = [p \in Callers |-> <<>>]
    /\ loop = NoLoop
    /\ ret = [p \in Callers |-> "-"]
    /\ nextId = 0
    /\ registered = <<>>
    /\ closed = <<>>
    /\ hookLog = <<>>
    /\ recovered = {}
    /\ atBegin = <<>>
    /\ clobbered = FALSE
    /\ sk = NoAbstractRSocket
    /\ opts = <<>>
    /\ alast = NoACall
    /\ uri = <<>>
    /\ parsed = NotParsed

\* some goroutine is not inside a request and may start a dispatch
CanStart == BagCardinality(calls) < NumCallers

\* the requests under way
InFlight == BagToSet(calls)

\* the requests under way once a refreshLease has replaced the lease they
\* consulted
Stale(b) ==
    LET S == {[c EXCEPT !.fresh = FALSE] : c \in BagToSet(b)}
    IN [x \in S |-> CopiesIn(x, b) + CopiesIn([x EXCEPT !.fresh = TRUE], b)]

\* ------------------------------------------------------------------ lease
\* the clock advances
Tick ==
    /\ now < MaxTime
    /\ now' = now + 1
    /\ UNCHANGED <<reqLease, calls, last, refreshed, quota, spent, fwd>>
    /\ UNCHANGED <<closeVars, libVars>>

\* the lease refreshLease leaves behind, and the history of it
Installs(lease, n) ==
    /\ reqLease' = lease
    /\ refreshed' = TRUE
    /\ quota' = n
    /\ spent' = 0
    /\ fwd' = 0
    /\ calls' = Stale(calls)
    /\ UNCHANGED <<now, last>>
    /\ UNCHANGED <<closeVars, libVars>>

\* a refreshLease that installs the first lease and never renews it
refreshLease_once(ttl, n) ==
    Installs(IF ~reqLease.installed THEN newLeaser(now + ttl, n) ELSE reqLease, n)

\* a refreshLease that adds the new units to the ones left
refreshLease_adding(ttl, n) ==
    LET deadline == now + ttl IN
    Installs(IF ~reqLease.installed
             THEN newLeaser(deadline, n)
             ELSE [reqLease EXCEPT !.deadline = deadline, !.remaining = @ + n], n)

refreshLease(ttl, n) ==
    LET deadline == now + ttl IN
    Installs(IF ~reqLease.installed
             THEN newLeaser(deadline, n)
             ELSE refresh(reqLease, deadline, n), n)

\* ------------------------------------------------------------------ dispatch
\* err := p.reqLease.allow() at the head of a gated method: the lease is
\* consumed, and the dispatch holds the error.  A dispatch that goes on to the
\* duplex socket joins the dispatches under way, one that returns is the last
\* one returned.
Consult(op, m, stage, logged, res) ==
    /\ reqLease' = allowed(reqLease, now)
    /\ spent' = IF reqLease.installed /\ allow(reqLease, now) = NoErr THEN spent + 1 ELSE spent
    /\ LET c == [op |-> op, stage |-> stage, arg |-> m,
                 gate |-> LeaseState(reqLease, now), err |-> allow(reqLease, now),
                 logged |-> logged, took |-> reqLease.remaining - reqLease'.remaining,
                 sent |-> <<>>, ret |-> res,
                 fresh |-> reqLease.installed /\ op \in RequestOps /\ stage = "admitted"]
       IN IF stage = "returned"
          THEN last' = c /\ UNCHANGED calls
          ELSE calls' = calls (+) SetToBag({c}) /\ UNCHANGED last
    /\ UNCHANGED <<now, refreshed, quota, fwd>>
    /\ UNCHANGED <<closeVars, libVars>>

\* p.socket.<op>(arg): the duplex socket is handed the argument and its result
\* is what the method returns
Forward(c, op) ==
    /\ BagIn(c, calls)
    /\ c.op = op
    /\ last' = [c EXCEPT !.stage = "returned",
                         !.fresh = FALSE,
                         !.sent = Append(@, c.arg),
                         !.ret = DuplexResult(op, c.arg)]
    /\ calls' = calls (-) SetToBag({c})
    /\ fwd' = IF c.fresh THEN fwd + 1 ELSE fwd
    /\ UNCHANGED <<now, reqLease, refreshed, quota, spent>>
    /\ UNCHANGED <<closeVars, libVars>>

\* FireAndForget: the lease is consulted and a denial is logged; the method does
\* not return there, and the duplex socket's FireAndForget is called with m
FireAndForget(m) ==
    /\ CanStart
    /\ reqLease' = allowed(reqLease, now)
    /\ spent' = IF reqLease.installed /\ allow(reqLease, now) = NoErr THEN spent + 1 ELSE spent
    /\ last' = [op |-> "FF", stage |-> "returned", arg |-> m,
                gate |-> LeaseState(reqLease, now), err |-> allow(reqLease, now),
                logged |-> allow(reqLease, now),
                took |-> reqLease.remaining - reqLease'.remaining,
                sent |-> <<m>>, ret |-> NoRet, fresh |-> FALSE]
    /\ UNCHANGED <<now, calls, refreshed, quota, fwd>>
    /\ UNCHANGED <<closeVars, libVars>>

\* a MetadataPush gated like the other models
MetadataPush_gated(m) ==
    /\ CanStart
    /\ reqLease' = allowed(reqLease, now)
    /\ spent' = IF reqLease.installed /\ allow(reqLease, now) = NoErr THEN spent + 1 ELSE spent
    /\ last' = [op |-> "MP", stage |-> "returned", arg |-> m,
                gate |-> LeaseState(reqLease, now), err |-> allow(reqLease, now),
                logged |-> allow(reqLease, now),
                took |-> reqLease.remaining - reqLease'.remaining,
                sent |-> IF allow(reqLease, now) = NoErr THEN <<m>> ELSE <<>>,
                ret |-> NoRet, fresh |-> FALSE]
    /\ UNCHANGED <<now, calls, refreshed, quota, fwd>>
    /\ UNCHANGED <<closeVars, libVars>>

\* MetadataPush: one call into the duplex socket
MetadataPush(m) ==
    /\ CanStart
    /\ UNCHANGED reqLease
    /\ last' = [op |-> "MP", stage |-> "returned", arg |-> m,
                gate |-> LeaseState(reqLease, now), err |-> NoErr, logged |-> NoErr,
                took |-> reqLease.remaining - reqLease'.remaining,
                sent |-> <<m>>, ret |-> NoRet, fresh |-> FALSE]
    /\ UNCHANGED <<now, calls, refreshed, quota, spent, fwd>>
    /\ UNCHANGED <<closeVars, libVars>>

\* a request-style method up to its if: a denial returns the failed result
Request(op, m) ==
    /\ CanStart
    /\ IF allow(reqLease, now) # NoErr
       THEN Consult(op, m, "returned", NoErr, Failed(RetType(op), allow(reqLease, now)))
       ELSE Consult(op, m, "admitted", NoErr, NoRet)

\* a request method whose if does not return: a denied request goes on
Request_undenied(op, m) ==
    /\ CanStart
    /\ Consult(op, m, "admitted", NoErr, NoRet)

\* a request method that fails with one fixed error, whatever allow() said
Request_fixederr(op, m) ==
    /\ CanStart
    /\ IF allow(reqLease, now) # NoErr
       THEN Consult(op, m, "returned", NoErr, Failed(RetType(op), ErrExhausted))
       ELSE Consult(op, m, "admitted", NoErr, NoRet)

RequestResponse_undenied(m) == Request_undenied("RR", m)

RequestResponse(m) == Request("RR", m)

RequestResponseSend(c) == Forward(c, "RR")

RequestStream_undenied(m) == Request_undenied("RS", m)

RequestStream(m) == Request("RS", m)

RequestStreamSend(c) == Forward(c, "RS")

RequestChannel_fixederr(m) == Request_fixederr("RC", m)

RequestChannel(m) == Request("RC", m)

RequestChannelSend(c) == Forward(c, "RC")

\* ------------------------------------------------------------------ close hooks
\* an OnClose that appends the nil func as well
OnCloseNil_appends(p) ==
    /\ pc[p] = "idle"
    /\ closers' = Append(closers, NilFn)
    /\ UNCHANGED <<once, pc, fn, tmp, loop, ret, nextId, registered, closed, hookLog,
                   recovered, atBegin, clobbered>>
    /\ UNCHANGED <<leaseVars, libVars>>

\* OnClose(nil) returns at once
OnCloseNil(p) ==
    /\ pc[p] = "idle"
    /\ UNCHANGED <<closeVars, leaseVars, libVars>>

\* OnClose(f), f not nil, up to the read of p.closers by append.  The hook is
\* a new one of the given kind.
OnClose(p, kind) ==
    /\ pc[p] = "idle"
    /\ nextId < MaxHooks
    /\ nextId' = nextId + 1
    /\ fn' = [fn EXCEPT ![p] =
                  [id |-> nextId + 1, kind |-> kind, late |-> (once = "done")]]
    /\ tmp' = [tmp EXCEPT ![p] = closers]
    /\ pc' = [pc EXCEPT ![p] = "append"]
    /\ UNCHANGED <<closers, once, loop, ret, registered, closed, hookLog, recovered,
                   atBegin, clobbered>>
    /\ UNCHANGED <<leaseVars, libVars>>

\* p.closers = append(...): the store of the slice the append built.  Nothing
\* orders it with the other goroutines' reads and stores of p.closers, so it
\* may store over hooks appended since its read.
OnCloseStore(p) ==
    /\ pc[p] = "append"
    /\ closers' = Append(tmp[p], fn[p])
    /\ registered' = Append(registered, fn[p].id)
    /\ clobbered' = (clobbered \/ (once # "idle" /\ closers # tmp[p]))
    /\ pc' = [pc EXCEPT ![p] = "idle"]
    /\ fn' = [fn EXCEPT ![p] = NilFn]
    /\ tmp' = [tmp EXCEPT ![p] = <<>>]
    /\ UNCHANGED <<once, loop, ret, nextId, closed, hookLog, recovered, atBegin>>
    /\ UNCHANGED <<leaseVars, libVars>>

\* ------------------------------------------------------------------ close
\* a Close without the Once: every caller runs the function
Close_unguarded(p) ==
    /\ pc[p] = "idle"
    /\ once' = "running"
    /\ pc' = [pc EXCEPT ![p] = "close"]
    /\ atBegin' = IF once = "idle" THEN closers ELSE atBegin
    /\ UNCHANGED <<closers, fn, tmp, loop, ret, nextId, registered, closed, hookLog,
                   recovered, clobbered>>
    /\ UNCHANGED <<leaseVars, libVars>>

\* a Close that runs the sequence again when the first one is over
Close_again(p) ==
    /\ pc[p] = "idle"
    /\ once # "running"
    /\ once' = "running"
    /\ pc' = [pc EXCEPT ![p] = "close"]
    /\ atBegin' = IF once = "idle" THEN closers ELSE atBegin
    /\ UNCHANGED <<closers, fn, tmp, loop, ret, nextId, registered, closed, hookLog,
                   recovered, clobbered>>
    /\ UNCHANGED <<leaseVars, libVars>>

\* Close() up to p.once.Do: the first caller enters the function, a caller that
\* finds it running waits for it, a caller that finds it done returns its own
\* err, which nothing has set
Close(p) ==
    /\ pc[p] = "idle"
    /\ IF once = "idle"
       THEN /\ once' = "running"
            /\ pc' = [pc EXCEPT ![p] = "close"]
            /\ atBegin' = closers
            /\ UNCHANGED ret
       ELSE IF once = "running"
       THEN /\ pc' = [pc EXCEPT ![p] = "wait"]
            /\ UNCHANGED <<once, atBegin, ret>>
       ELSE /\ ret' = [ret EXCEPT ![p] = "nil"]
            /\ UNCHANGED <<once, pc, atBegin>>
    /\ UNCHANGED <<closers, fn, tmp, loop, nextId, registered, closed, hookLog, recovered,
                   clobbered>>
    /\ UNCHANGED <<leaseVars, libVars>>

\* err = p.socket.Close(); i, l := 0, len(p.closers)
CloseSocket(p, result) ==
    /\ pc[p] = "close"
    /\ closed' = Append(closed, result)
    /\ loop' = [i |-> 0, l |-> Len(closers), err |-> result, by |-> p, out |-> "-"]
    /\ pc' = [pc EXCEPT ![p] = "hooks"]
    /\ UNCHANGED <<closers, once, fn, tmp, ret, nextId, registered, hookLog, recovered,
                   atBegin, clobbered>>
    /\ UNCHANGED <<leaseVars, libVars>>

\* the function leaves Do by a panic: Do's deferred calls mark the Once done
\* and the panic reaches the caller of Close
Panics(p) ==
    /\ once' = "done"
    /\ ret' = [ret EXCEPT ![p] = "panic"]
    /\ pc' = [pc EXCEPT ![p] = "idle"]
    /\ loop' = [loop EXCEPT !.out = "panic"]

\* a loop that walks the hooks first to last
RunHook_forward(p) ==
    /\ pc[p] = "hooks"
    /\ loop.i < loop.l
    /\ IF loop.i + 1 > Len(closers)
       THEN Panics(p) /\ UNCHANGED <<hookLog, recovered>>
       ELSE LET f == closers[loop.i + 1] IN
            /\ hookLog' = Append(hookLog, [id |-> f.id, kind |-> f.kind, arg |-> loop.err])
            /\ recovered' = IF f.kind = "panic" THEN recovered \cup {f.id} ELSE recovered
            /\ IF f.kind = "reclose"
               THEN pc' = [pc EXCEPT ![p] = "stuck"] /\ UNCHANGED loop
               ELSE loop' = [loop EXCEPT !.i = loop.i + 1] /\ UNCHANGED pc
            /\ UNCHANGED <<once, ret>>
    /\ UNCHANGED <<closers, fn, tmp, nextId, registered, closed, atBegin, clobbered>>
    /\ UNCHANGED <<leaseVars, libVars>>

\* a loop without the deferred recover: a hook's fault leaves Do
RunHook_norecover(p) ==
    /\ pc[p] = "hooks"
    /\ loop.i < loop.l
    /\ IF loop.l - loop.i > Len(closers)
       THEN Panics(p) /\ UNCHANGED <<hookLog, recovered>>
       ELSE LET f == closers[loop.l - loop.i] IN
            /\ hookLog' = Append(hookLog, [id |-> f.id, kind |-> f.kind, arg |-> loop.err])
            /\ UNCHANGED recovered
            /\ IF f.kind = "panic"
               THEN Panics(p)
               ELSE /\ IF f.kind = "reclose"
                       THEN pc' = [pc EXCEPT ![p] = "stuck"] /\ UNCHANGED loop
                       ELSE loop' = [loop EXCEPT !.i = loop.i + 1] /\ UNCHANGED pc
                    /\ UNCHANGED <<once, ret>>
    /\ UNCHANGED <<closers, fn, tmp, nextId, registered, closed, atBegin, clobbered>>
    /\ UNCHANGED <<leaseVars, libVars>>

\* one turn of the loop: fn(err) for fn = p.closers[l-i-1] under the deferred
\* recover.  The index is evaluated outside the recover.  A hook that calls
\* Close is inside Do and waits for Do to end.
RunHook(p) ==
    /\ pc[p] = "hooks"
    /\ loop.i < loop.l
    /\ IF loop.l - loop.i > Len(closers)
       THEN Panics(p) /\ UNCHANGED <<hookLog, recovered>>
       ELSE LET f == closers[loop.l - loop.i] IN
            /\ hookLog' = Append(hookLog, [id |-> f.id, kind |-> f.kind, arg |-> loop.err])
            /\ recovered' = IF f.kind = "panic" THEN recovered \cup {f.id} ELSE recovered
            /\ IF f.kind = "reclose"
               THEN pc' = [pc EXCEPT ![p] = "stuck"] /\ UNCHANGED loop
               ELSE loop' = [loop EXCEPT !.i = loop.i + 1] /\ UNCHANGED pc
            /\ UNCHANGED <<once, ret>>
    /\ UNCHANGED <<closers, fn, tmp, nextId, registered, closed, atBegin, clobbered>>
    /\ UNCHANGED <<leaseVars, libVars>>

\* the loop is over: Do marks the Once done and Close returns err
CloseReturn(p) ==
    /\ pc[p] = "hooks"
    /\ loop.i = loop.l
    /\ once' = "done"
    /\ ret' = [ret EXCEPT ![p] = loop.err]
    /\ pc' = [pc EXCEPT ![p] = "idle"]
    /\ loop' = [loop EXCEPT !.out = loop.err]
    /\ UNCHANGED <<closers, fn, tmp, nextId, registered, closed, hookLog, recovered,
                   atBegin, clobbered>>
    /\ UNCHANGED <<leaseVars, libVars>>

\* a caller that waited in Do and returns the result the sequence captured
CloseWaited_shared(p) ==
    /\ pc[p] = "wait"
    /\ once = "done"
    /\ ret' = [ret EXCEPT ![p] = loop.err]
    /\ pc' = [pc EXCEPT ![p] = "idle"]
    /\ UNCHANGED <<closers, once, fn, tmp, loop, nextId, registered, closed, hookLog,
                   recovered, atBegin, clobbered>>
    /\ UNCHANGED <<leaseVars, libVars>>

\* a caller that waited in Do returns once the function has ended: its own err
\* is nil
CloseWaited(p) ==
    /\ pc[p] = "wait"
    /\ once = "done"
    /\ ret' = [ret EXCEPT ![p] = "nil"]
    /\ pc' = [pc EXCEPT ![p] = "idle"]
    /\ UNCHANGED <<closers, once, fn, tmp, loop, nextId, registered, closed, hookLog,
                   recovered, atBegin, clobbered>>
    /\ UNCHANGED <<leaseVars, libVars>>

\* ------------------------------------------------------------------ abstract socket
\* the option functions: what the func each of them returns does to the socket
Opt_MetadataPush(f, s) == [s EXCEPT !.MP = f]

Opt_FireAndForget(f, s) == [s EXCEPT !.FF = f]

Opt_RequestResponse(f, s) == [s EXCEPT !.RR = f]

\* a RequestStream option that also resets the channel handler
Opt_RequestStream_both(f, s) == [s EXCEPT !.RS = f, !.RC = NilHandler]

Opt_RequestStream(f, s) == [s EXCEPT !.RS = f]

Opt_RequestChannel(f, s) == [s EXCEPT !.RC = f]

\* an OptAbstractSocket value: the option function that built it and its handler
Options == [opt : Models, fn : Handlers \cup {NilHandler}]

\* fn(sk) for an option fn
ApplyOpt(o, s) ==
    CASE o.opt = "MP" -> Opt_MetadataPush(o.fn, s)
      [] o.opt = "FF" -> Opt_FireAndForget(o.fn, s)
      [] o.opt = "RR" -> Opt_RequestResponse(o.fn, s)
      [] o.opt = "RS" -> Opt_RequestStream(o.fn, s)
      [] o.opt = "RC" -> Opt_RequestChannel(o.fn, s)

\* for _, fn := range opts { fn(sk) }
RECURSIVE ApplyOpts(_, _)
ApplyOpts(os, s) ==
    IF os = <<>> THEN s ELSE ApplyOpts(Tail(os), ApplyOpt(Head(os), s))

\* the option lists of at most MaxOpts options
OptLists == UNION {[1..n -> Options] : n \in 0..MaxOpts}

\* what handler h returns for argument m
HandlerResult(h, type, m) == [type |-> type, err |-> NoErr, val |-> <<h, m>>]

\* the abstract socket of a behaviour is built once, by one NewAbstractSocket
NewAbstractSocket(os) ==
    /\ sk = NoAbstractRSocket
    /\ sk' = ApplyOpts(os, ZeroAbstractRSocket)
    /\ opts' = os
    /\ alast' = NoACall
    /\ UNCHANGED <<leaseVars, closeVars, uriVars>>

\* a method without a result: log and return when the handler is nil, else
\* call the handler
Push(op, handler, unsupported, m) ==
    /\ sk # NoAbstractRSocket
    /\ alast' = IF handler = NilHandler
                THEN [op |-> op, arg |-> m, logged |-> unsupported, called |-> <<>>,
                      ret |-> NoRet]
                ELSE [op |-> op, arg |-> m, logged |-> NoErr,
                      called |-> <<[fn |-> handler, arg |-> m]>>, ret |-> NoRet]
    /\ UNCHANGED <<sk, opts>>
    /\ UNCHANGED <<leaseVars, closeVars, uriVars>>

\* a method with a result: return the failed result when the handler is nil,
\* else return what the handler returns
Ask(op, handler, unsupported, m) ==
    /\ sk # NoAbstractRSocket
    /\ alast' = IF handler = NilHandler
                THEN [op |-> op, arg |-> m, logged |-> NoErr, called |-> <<>>,
                      ret |-> Failed(RetType(op), unsupported)]
                ELSE [op |-> op, arg |-> m, logged |-> NoErr,
                      called |-> <<[fn |-> handler, arg |-> m]>>,
                      ret |-> HandlerResult(handler, RetType(op), m)]
    /\ UNCHANGED <<sk, opts>>
    /\ UNCHANGED <<leaseVars, closeVars, uriVars>>

AbstractRSocket_MetadataPush(m) == Push("MP", sk.MP, errUnsupportedMetadataPush, m)

AbstractRSocket_FireAndForget(m) == Push("FF", sk.FF, errUnsupportedFireAndForget, m)

AbstractRSocket_RequestResponse(m) == Ask("RR", sk.RR, errUnsupportedRequestResponse, m)

AbstractRSocket_RequestStream(m) == Ask("RS", sk.RS, errUnsupportedRequestStream, m)

\* a RequestChannel that fails with the condition of RequestStream
AbstractRSocket_RequestChannel_asStream(m) ==
    Ask("RC", sk.RC, errUnsupportedRequestStream, m)

AbstractRSocket_RequestChannel(m) == Ask("RC", sk.RC, errUnsupportedRequestChannel, m)

\* ------------------------------------------------------------------ URI
Digits == {"0", "1", "2", "3", "4", "5", "6", "7", "8", "9"}

DigitValue(c) ==
    CASE c = "0" -> 0 [] c = "1" -> 1 [] c = "2" -> 2 [] c = "3" -> 3 [] c = "4" -> 4
      [] c = "5" -> 5 [] c = "6" -> 6 [] c = "7" -> 7 [] c = "8" -> 8 [] c = "9" -> 9

\* the alternatives of the first group of regURI
SchemeTCP == <<"t", "c", "p", ":", "/", "/">>
SchemeWS == <<"w", "s", ":", "/", "/">>

\* [^/:]+
IsHost(h) == Len(h) >= 1 /\ \A i \in 1..Len(h) : h[i] \notin {"/", ":"}

\* [1-9][0-9]+
IsPort(p) ==
    /\ Len(p) >= 2
    /\ p[1] \in Digits \ {"0"}
    /\ \A i \in 2..Len(p) : p[i] \in Digits

\* the ways regURI matches u: the texts of its three groups, the first group
\* empty when it takes no part
Submatches(u) ==
    {<<sch, SubSeq(u, Len(sch) + 1, k - 1), SubSeq(u, k + 1, Len(u))>> :
        <<sch, k>> \in {x \in {<<>>, SchemeTCP, SchemeWS} \X (1..Len(u)) :
                          /\ Len(u) >= Len(x[1])
                          /\ SubSeq(u, 1, Len(x[1])) = x[1]
                          /\ x[2] > Len(x[1])
                          /\ u[x[2]] = ":"
                          /\ IsHost(SubSeq(u, Len(x[1]) + 1, x[2] - 1))
                          /\ IsPort(SubSeq(u, x[2] + 1, Len(u)))}}

\* regURI.FindStringSubmatch(u) without its element 0: <<>> is the nil slice;
\* the optional group prefers to take part
FindStringSubmatch(u) ==
    IF Submatches(u) = {} THEN <<>>
    ELSE IF \E mat \in Submatches(u) : mat[1] # <<>>
         THEN CHOOSE mat \in Submatches(u) : mat[1] # <<>>
         ELSE CHOOSE mat \in Submatches(u) : TRUE

\* the largest int, 1<<63 - 1
MaxInt == <<"9", "2", "2", "3", "3", "7", "2", "0", "3", "6", "8", "5", "4", "7", "7", "5", "8", "0", "7">>

\* a run of digits without its leading zeros ("0" for a run of zeros)
RECURSIVE Numeral(_)
Numeral(d) ==
    IF Len(d) > 1 /\ d[1] = "0" THEN Numeral(Tail(d)) ELSE d

\* numeral a is greater than numeral b
RECURSIVE Greater(_, _)
Greater(a, b) ==
    IF Len(a) # Len(b) THEN Len(a) > Len(b)
    ELSE IF a = <<>> THEN FALSE
    ELSE IF a[1] # b[1] THEN DigitValue(a[1]) > DigitValue(b[1])
    ELSE Greater(Tail(a), Tail(b))

\* strconv.Atoi on a run of digits: its value, and on a value out of range
\* the largest int together with an error
Atoi(d) ==
    IF Greater(Numeral(d), MaxInt)
    THEN [val |-> MaxInt, err |-> "value out of range"]
    ELSE [val |-> Numeral(d), err |-> NoErr]

ErrInvalidURI == "rsocket: invalid URI"
ErrUnsupportedProtocol == "rsocket: unsupported protocol"

\* what ParseURI returns for the string u
ParsedURI(u) ==
    LET mat == FindStringSubmatch(u) IN
    IF mat = <<>>
    THEN [uri |-> NilURI, err |-> ErrInvalidURI]
    ELSE LET proto == mat[1]
             host == mat[2]
             port == Atoi(mat[3]).val
         IN IF proto \in {SchemeTCP, <<>>}
            THEN [uri |-> [proto |-> "protoTCP", host |-> host, port |-> port],
                  err |-> NoErr]
            ELSE IF proto = SchemeWS
            THEN [uri |-> [proto |-> "protoWebsocket", host |-> host, port |-> port],
                  err |-> NoErr]
            ELSE [uri |-> NilURI, err |-> ErrUnsupportedProtocol]

\* the strings ParseURI is handed: a scheme or none, a host, a colon or none,
\* a port text, and a tail
SchemeTexts == {<<>>, SchemeTCP, SchemeWS, <<"f", "t", "p", ":", "/", "/">>, <<"t", "c", "p", ":", "/">>, <<":", "/", "/">>}
HostTexts == {<<>>, <<"h">>, <<"a", ".", "b">>, <<"h", "/">>}
ShortPortTexts == UNION {[1..n -> {"0", "1", "9"}] : n \in 0..MaxPortLen}
LongPortTexts ==
    {MaxInt,
     <<"9", "2", "2", "3", "3", "7", "2", "0", "3", "6", "8", "5", "4", "7", "7", "5", "8", "0", "8">>,
     <<"1", "0", "0", "0", "0", "0", "0", "0", "0", "0", "0", "0", "0", "0", "0", "0", "0", "0", "0", "0">>}
PortTexts == ShortPortTexts \cup LongPortTexts \cup {<<"1", "x">>}
URIs ==
    {sch \o h \o c \o p \o t :
        sch \in SchemeTexts, h \in HostTexts, c \in {<<>>, <<":">>},
        p \in PortTexts, t \in {<<>>, <<"/">>}}

\* one call of ParseURI in a behaviour: its result depends on u alone
ParseURI(u) ==
    /\ parsed = NotParsed
    /\ uri' = u
    /\ parsed' = ParsedURI(u)
    /\ UNCHANGED <<leaseVars, closeVars, abstractVars>>

\* ------------------------------------------------------------------ specification
CloseNext ==
    \/ \E p \in Callers : OnCloseNil(p)
    \/ \E p \in Callers, kind \in HookKinds : OnClose(p, kind)
    \/ \E p \in Callers : OnCloseStore(p)
    \/ \E p \in Callers : Close(p)
    \/ \E p \in Callers, result \in CloseResults : CloseSocket(p, result)
    \/ \E p \in Callers : RunHook(p)
    \/ \E p \in Callers : CloseReturn(p)
    \/ \E p \in Callers : CloseWaited(p)

LeaseNext ==
    \/ Tick
    \/ \E ttl \in TTLs, n \in Quotas : refreshLease(ttl, n)
    \/ \E m \in Msgs : FireAndForget(m)
    \/ \E m \in Msgs : MetadataPush(m)
    \/ \E m \in Msgs : RequestResponse(m)
    \/ \E c \in InFlight : RequestResponseSend(c)
    \/ \E m \in Msgs : RequestStream(m)
    \/ \E c \in InFlight : RequestStreamSend(c)
    \/ \E m \in Msgs : RequestChannel(m)
    \/ \E c \in InFlight : RequestChannelSend(c)

AbstractNext ==
    \/ \E os \in OptLists : NewAbstractSocket(os)
    \/ \E m \in Msgs : AbstractRSocket_MetadataPush(m)
    \/ \E m \in Msgs : AbstractRSocket_FireAndForget(m)
    \/ \E m \in Msgs : AbstractRSocket_RequestResponse(m)
    \/ \E m \in Msgs : AbstractRSocket_RequestStream(m)
    \/ \E m \in Msgs : AbstractRSocket_RequestChannel(m)

URINext == \E u \in URIs : ParseURI(u)

Next == LeaseNext \/ CloseNext \/ AbstractNext \/ URINext

Spec == Init /\ [][Next]_vars

\* The dispatch methods and refreshLease read and write reqLease only, OnClose
\* and Close read and write closers and once only: the two halves of the socket
\* are specified apart as well.
SpecLease == Init /\ [][LeaseNext]_vars

SpecClose == Init /\ [][CloseNext]_vars

\* a goroutine inside Close that can take its next step takes it
Continue(p) ==
    \/ \E result \in CloseResults : CloseSocket(p, result)
    \/ RunHook(p)
    \/ CloseReturn(p)
    \/ CloseWaited(p)

\* the close half under the scheduler: no goroutine that can run is held back
\* for ever
FairSpecClose == SpecClose /\ \A p \in Callers : WF_vars(Continue(p))

\* AbstractRSocket shares nothing with baseSocket
SpecAbstract == Init /\ [][AbstractNext]_vars

\* ParseURI is a function of its string
SpecURI == Init /\ [][URINext]_vars

\* ------------------------------------------------------------------ claims
\* the number of times hook id was invoked
Invoked(id) == Cardinality({k \in 1..Len(hookLog) : hookLog[k].id = id})

\* the place of hook id in the order of registration
Place(id) == CHOOSE k \in 1..Len(registered) : registered[k] = id

\* C1: however many callers invoke Close and however they interleave, the
\* duplex socket's Close runs at most once and no hook is invoked twice; and
\* once the close sequence has ended the duplex socket's Close has run exactly
\* once and every hook that was in the hook list when the first Close began
\* has been invoked exactly once.  (The hooks registered are the hooks of the
\* list; the case of a racing OnClose storing over the list while the close
\* sequence runs is the matter of the claim on concurrent OnClose.)
C1_CloseOnce ==
    /\ Len(closed) <= 1
    /\ \A id \in HookIds : Invoked(id) <= 1
    /\ (once = "done" /\ ~clobbered) =>
          /\ Len(closed) = 1
          /\ \A k \in 1..Len(atBegin) : Invoked(atBegin[k].id) = 1

\* the sequence ended with two hooks invoked while another caller of Close was
\* waiting for it
C1_Witness ==
    /\ once = "done" /\ ~clobbered /\ Len(closed) = 1
    /\ Len(atBegin) = 2 /\ Len(hookLog) = 2
    /\ \E p \in Callers : pc[p] = "wait"

\* C2: no hook runs before the duplex socket is closed; each hook is handed
\* what the duplex socket's Close returned; and the hooks run in reverse order
\* of registration: of two hooks invoked, the one registered later ran first.
\* (The order is that of the hook list the sequence walks; a racing OnClose
\* that stores over the list while the sequence runs is the matter of the
\* claim on concurrent OnClose.)
C2_CloseThenHooksReversed ==
    /\ hookLog # <<>> => Len(closed) >= 1
    /\ \A k \in 1..Len(hookLog) : hookLog[k].arg = closed[1]
    /\ ~clobbered =>
          \A a, b \in 1..Len(hookLog) :
              a < b => Place(hookLog[a].id) > Place(hookLog[b].id)

\* the hook registered second ran first, then the first, both with the error
\* of the duplex socket's Close
C2_Witness ==
    /\ closed = <<"EOF">>
    /\ Len(registered) = 2 /\ Len(hookLog) = 2
    /\ hookLog[1].id = registered[2] /\ hookLog[2].id = registered[1]
    /\ hookLog[1].arg = "EOF" /\ hookLog[2].arg = "EOF"

\* C10: a fault raised by a hook is caught and logged; it does not reach the
\* caller of Close, which returns what the duplex socket's Close returned; and
\* the hooks registered before the faulting one are still invoked (once the
\* sequence has ended every hook of the list has been invoked).
C10_HookFaultIsolated ==
    /\ \A k \in 1..Len(hookLog) : hookLog[k].kind = "panic" => hookLog[k].id \in recovered
    /\ ~clobbered =>
          /\ loop.out # "panic"
          /\ \A p \in Callers : ret[p] # "panic"
          /\ loop.out # "-" => loop.out = closed[1]
          /\ once = "done" =>
                \A k \in 1..Len(atBegin) : Invoked(atBegin[k].id) = 1

\* the hook registered last raised a fault, the hook registered before it was
\* invoked after it, and Close returned the duplex socket's error
C10_Witness ==
    /\ once = "done" /\ ~clobbered
    /\ Len(hookLog) = 2 /\ hookLog[1].kind = "panic" /\ hookLog[2].kind = "ok"
    /\ hookLog[1].id \in recovered
    /\ closed = <<"EOF">> /\ loop.out = "EOF" /\ ret[loop.by] = "EOF"

\* the dispatches in progress and the one that returned last
Dispatches == InFlight \cup {last}

Denied(c) == c.gate \in {"expired", "exhausted"}

\* C3: when the lease denies a one-way send (installed, and expired or
\* exhausted), FireAndForget logs the denial and drops the request: the duplex
\* socket's FireAndForget is not called for it.
C3_DeniedFireAndForgetDropped ==
    (last.op = "FF" /\ Denied(last)) => (last.logged = last.err /\ last.sent = <<>>)

\* C4: a denied RequestResponse, RequestStream or RequestChannel returns the
\* already-failed result carrying the lease's error and the duplex socket's
\* method is not called (no denied request is ever on its way to the duplex
\* socket); an allowed one hands its argument to the duplex socket exactly
\* once and returns the duplex socket's result.
C4_RequestGate ==
    /\ \A c \in InFlight :
          /\ c.op \in RequestOps /\ c.stage = "admitted"
          /\ ~Denied(c) /\ c.err = NoErr /\ c.sent = <<>>
    /\ last.op \in RequestOps =>
          IF Denied(last)
          THEN /\ last.err \in {ErrExpired, ErrExhausted}
               /\ last.ret = Failed(RetType(last.op), last.err)
               /\ last.sent = <<>>
          ELSE /\ last.err = NoErr
               /\ last.sent = <<last.arg>>
               /\ last.ret = DuplexResult(last.op, last.arg)

\* a request denied by an exhausted lease has returned its failed result
C4_Witness ==
    /\ last.op = "RS" /\ last.gate = "exhausted"
    /\ last.ret = Failed("flux", ErrExhausted) /\ last.sent = <<>>
    /\ \E c \in InFlight : c.op = "RR" /\ c.stage = "admitted"

\* C5: MetadataPush reaches the duplex socket whatever the lease (none, live,
\* exhausted, expired) and takes nothing from it.
C5_MetadataPushUngated ==
    last.op = "MP" =>
        /\ last.sent = <<last.arg>>
        /\ last.took = 0
        /\ last.err = NoErr

\* a MetadataPush went through an expired lease that still has quota
C5_Witness ==
    /\ last.op = "MP" /\ last.gate = "expired" /\ last.sent = <<last.arg>>
    /\ reqLease.remaining = quota /\ quota > 0

\* C6: after refreshLease(ttl, n), while no other refresh happens and the
\* deadline has not passed, the lease allows n gated dispatches and denies the
\* next with "exhausted": the units spent and the units remaining add up to n,
\* a dispatch is allowed (and takes one unit) exactly while units remain and
\* is denied as exhausted once none does; remaining never goes below 0.
C6_QuotaCounted ==
    /\ reqLease.installed =>
          (reqLease.remaining >= 0 /\ spent + reqLease.remaining = quota)
    /\ \A c \in Dispatches :
          /\ (c.op \in GatedOps /\ c.gate = "live") => (c.err = NoErr /\ c.took = 1)
          /\ (c.op \in GatedOps /\ c.gate = "exhausted") =>
                (c.err = ErrExhausted /\ c.took = 0)

\* every unit of the largest lease has been spent and the next request was
\* denied as exhausted before the deadline
C6_Witness ==
    /\ reqLease.installed /\ now < reqLease.deadline
    /\ quota = MaxQuota /\ spent = quota /\ reqLease.remaining = 0
    /\ last.op = "RR" /\ last.gate = "exhausted" /\ last.ret = Failed("mono", ErrExhausted)

\* C7: at or past the deadline every gated dispatch is denied with "expired",
\* also when units remain and also when none does, and the denial takes no
\* unit; a request returns the failed result carrying "expired".
C7_ExpiredDenies ==
    \A c \in Dispatches :
        (c.op \in GatedOps /\ c.gate = "expired") =>
            /\ c.err = ErrExpired
            /\ c.took = 0
            /\ (c.op = "FF" => c.logged = ErrExpired)
            /\ (c.op \in RequestOps =>
                    (c.stage = "returned" /\ c.ret = Failed(RetType(c.op), ErrExpired)
                     /\ c.sent = <<>>))

\* a request was denied as expired by a lease that still holds its unit
C7_Witness ==
    /\ last.op = "RC" /\ last.gate = "expired" /\ last.ret = Failed("flux", ErrExpired)
    /\ reqLease.installed /\ now >= reqLease.deadline
    /\ reqLease.remaining > 0 /\ spent = 0

\* C8: while refreshLease has never been called (reqLease is still nil) no
\* dispatch is denied: every one is allowed and, once it returned, has reached
\* the duplex socket.
C8_NoLeaseAllowsAll ==
    ~refreshed =>
        /\ \A c \in Dispatches : c.err = NoErr /\ c.logged = NoErr /\ c.gate = "none"
        /\ last.op # "-" => last.sent = <<last.arg>>
        /\ last.op \in RequestOps => last.ret = DuplexResult(last.op, last.arg)

\* without a lease a request returned the duplex socket's result while every
\* goroutine has a request on its way
C8_Witness ==
    /\ ~refreshed /\ ~reqLease.installed
    /\ last.op = "RC" /\ last.ret = DuplexResult("RC", last.arg)
    /\ BagCardinality(calls) = NumCallers

\* C9: of the requests that consult the lease after a refreshLease(ttl, n) and
\* before the next one, at most n reach the duplex socket, however the callers
\* interleave; each request on its way to the duplex socket took its own unit;
\* and a caller that is in no dispatch can always start one, whatever the other
\* callers are doing.
C9_NoDoubleSpend ==
    /\ reqLease.installed => (fwd <= quota /\ spent <= quota)
    /\ \A c \in InFlight : c.fresh => c.took = 1
    /\ CanStart =>
          /\ ENABLED RequestResponse("m1")
          /\ ENABLED RequestStream("m1")
          /\ ENABLED RequestChannel("m1")

\* concurrent requests spent every unit of the largest lease: one has reached
\* the duplex socket, one is on its way with its own unit, and the request
\* after them was denied
C9_Witness ==
    /\ reqLease.installed /\ quota = MaxQuota /\ spent = quota
    /\ fwd = quota - 1
    /\ \E c \in InFlight : c.fresh /\ c.took = 1
    /\ last.op \in RequestOps /\ last.gate = "exhausted"
    /\ CanStart

\* the unsupported-interaction condition of a model
Unsupported(op) ==
    CASE op = "MP" -> errUnsupportedMetadataPush
      [] op = "FF" -> errUnsupportedFireAndForget
      [] op = "RR" -> errUnsupportedRequestResponse
      [] op = "RS" -> errUnsupportedRequestStream
      [] op = "RC" -> errUnsupportedRequestChannel

\* the last method call on the abstract socket found no handler for its model
Unhandled == alast.op \in Models /\ sk[alast.op] = NilHandler

\* C11: with no handler registered for its model, RequestResponse,
\* RequestStream and RequestChannel return the already-failed result carrying
\* the unsupported condition of that very model; FireAndForget and
\* MetadataPush log their condition and return, failing nobody; and the five
\* conditions are pairwise distinct.
C11_UnsupportedPerModel ==
    /\ (Unhandled /\ alast.op \in RequestOps) =>
          /\ alast.ret = Failed(RetType(alast.op), Unsupported(alast.op))
          /\ alast.called = <<>>
    /\ (Unhandled /\ alast.op \in {"FF", "MP"}) =>
          /\ alast.logged = Unsupported(alast.op)
          /\ alast.ret = NoRet
          /\ alast.called = <<>>
    /\ \A a, b \in Models : a # b => Unsupported(a) # Unsupported(b)

\* RequestChannel failed as unsupported on a socket that handles RequestStream
C11_Witness ==
    /\ alast.op = "RC" /\ sk.RC = NilHandler /\ sk.RS # NilHandler
    /\ alast.ret = Failed("flux", errUnsupportedRequestChannel)

\* the handler the options register for a model: that of the last option of
\* the model, nil when there is none
Registered(op) ==
    LET I == {i \in 1..Len(opts) : opts[i].opt = op}
    IN IF I = {} THEN NilHandler
       ELSE opts[CHOOSE i \in I : \A j \in I : j <= i].fn

\* C18: each option sets the handler of its own model and leaves the other
\* four alone, the later of two options for one model winning; a model with
\* a handler calls that handler once with the caller's argument and returns
\* its result as it is; a model without one makes no handler call.
C18_OptionsIndependent ==
    /\ sk # NoAbstractRSocket => \A op \in Models : sk[op] = Registered(op)
    /\ (alast.op \in Models /\ sk[alast.op] # NilHandler) =>
          /\ alast.called = <<[fn |-> sk[alast.op], arg |-> alast.arg]>>
          /\ alast.logged = NoErr
          /\ alast.ret = IF alast.op \in RequestOps
                         THEN HandlerResult(sk[alast.op], RetType(alast.op), alast.arg)
                         ELSE NoRet
    /\ Unhandled => alast.called = <<>>

\* two options for RequestStream were passed: a call of the model reached the
\* later handler, and RequestChannel is still without one
C18_Witness ==
    /\ Len(opts) = 2 /\ opts[1].opt = "RS" /\ opts[2].opt = "RS"
    /\ opts[1].fn = "h1" /\ opts[2].fn = "h2"
    /\ alast.op = "RS" /\ alast.called = <<[fn |-> "h2", arg |-> alast.arg]>>
    /\ alast.ret = HandlerResult("h2", "flux", alast.arg)
    /\ sk.RC = NilHandler

\* the text of u up to the end of its first "://": its scheme, <<>> when u
\* has none
SchemeOf(u) ==
    LET K == {k \in 1..(Len(u) - 2) : SubSeq(u, k, k + 2) = <<":", "/", "/">>}
    IN IF K = {} THEN <<>>
       ELSE SubSeq(u, 1, (CHOOSE k \in K : \A j \in K : k <= j) + 2)

\* u has the shape [scheme://]host:port
HasShape(u) ==
    LET rest == SubSeq(u, Len(SchemeOf(u)) + 1, Len(u))
    IN \E k \in 1..Len(rest) :
          /\ rest[k] = ":"
          /\ IsHost(SubSeq(rest, 1, k - 1))
          /\ IsPort(SubSeq(rest, k + 1, Len(rest)))

\* C12: ParseURI fails with "unsupported protocol" on every string that has
\* a scheme other than tcp:// and ws:// (as ftp://host:1234 has), and with
\* "invalid URI" only on strings that are not of the shape
\* [scheme://]host:port.
C12_UnsupportedProtocolReported ==
    parsed # NotParsed =>
        /\ SchemeOf(uri) \notin {<<>>, SchemeTCP, SchemeWS} =>
              parsed.err = ErrUnsupportedProtocol
        /\ parsed.err = ErrInvalidURI => ~HasShape(uri)

\* the ways to read u as [scheme://]host:port with the scheme tcp://, ws:// or
\* absent, the host a non-empty run free of '/' and ':', and the port a run of
\* at least two digits
Shapes(u) ==
    {<<sch, SubSeq(u, Len(sch) + 1, k - 1), SubSeq(u, k + 1, Len(u))>> :
        <<sch, k>> \in {x \in {<<>>, SchemeTCP, SchemeWS} \X (1..Len(u)) :
                          /\ Len(u) >= Len(x[1])
                          /\ SubSeq(u, 1, Len(x[1])) = x[1]
                          /\ x[2] > Len(x[1])
                          /\ u[x[2]] = ":"
                          /\ IsHost(SubSeq(u, Len(x[1]) + 1, x[2] - 1))
                          /\ Len(u) - x[2] >= 2
                          /\ \A i \in (x[2] + 1)..Len(u) : u[i] \in Digits}}

\* C13: ParseURI succeeds on exactly the strings [scheme://]host:port with the
\* scheme tcp://, ws:// or absent, a host that is a non-empty run free of '/'
\* and ':', and a port of at least two digits; it then returns protocol tcp
\* for tcp:// and for no scheme and websocket for ws://, the host as it is,
\* and the decimal value of the port's digits.
C13_ParseURIAccepts ==
    parsed # NotParsed =>
        /\ parsed.err = NoErr <=> Shapes(uri) # {}
        /\ parsed.err = NoErr =>
              \E sh \in Shapes(uri) :
                  /\ parsed.uri.proto =
                        (IF sh[1] = SchemeWS THEN "protoWebsocket" ELSE "protoTCP")
                  /\ parsed.uri.host = sh[2]
                  /\ parsed.uri.port = Numeral(sh[3])

\* C14: once the first Close has completed, a Close is a no-op: the duplex
\* socket is not closed again, no hook is invoked again, the sequence does not
\* start again, and the call returns what the first call returned or nil.
C14_LaterCloseNoOp ==
    [][once = "done" =>
          /\ closed' = closed
          /\ hookLog' = hookLog
          /\ once' = "done"
          /\ \A p \in Callers : Close(p) => ret'[p] \in {"nil", loop.out}]_vars

\* the caller that ran the sequence and got EOF has called Close again and got
\* nil; the duplex socket was closed once and a hook was invoked
C14_Witness ==
    /\ once = "done" /\ loop.out = "EOF"
    /\ ret[loop.by] = "nil"
    /\ Len(closed) = 1 /\ hookLog # <<>>

\* C15: refreshLease(ttl, q) replaces the window wholesale: whatever lease
\* there was (none, live, exhausted, expired), afterwards the deadline is
\* now + ttl and the remaining count is q, never q plus what was left; and a
\* socket that has a lease never goes back to having none.
C15_RefreshReplaces ==
    [][/\ \A ttl \in TTLs, n \in Quotas :
             refreshLease(ttl, n) =>
                 reqLease' = [installed |-> TRUE, deadline |-> now + ttl, remaining |-> n]
       /\ reqLease.installed => reqLease'.installed]_vars

\* a window of one unit was installed after an exhausted one and is untouched:
\* one unit remains
C15_Witness ==
    /\ reqLease.installed /\ quota = 1 /\ reqLease.remaining = 1 /\ spent = 0
    /\ last.gate = "exhausted"
    /\ \E c \in InFlight : c.gate = "live" /\ ~c.fresh

\* C16: every call of Close returns in the end, the call a close hook makes
\* on the same socket while the sequence runs included: no hook is invoked
\* under a gate it would have to pass again.
C16_CloseReturns ==
    \A p \in Callers : (pc[p] \in {"close", "hooks", "wait", "stuck"}) ~> (pc[p] = "idle")

\* the hooks whose OnClose had returned when the first Close began: the last
\* of them is the last hook of the list at that moment
RegisteredBefore ==
    IF atBegin = <<>> THEN {}
    ELSE {registered[k] : k \in 1..Place(atBegin[Len(atBegin)].id)}

\* C17: no registration of concurrent OnClose calls is lost: every hook whose
\* OnClose returned before the first Close began is in the hook list, and the
\* close sequence invokes it exactly once.
C17_NoRegistrationLost ==
    /\ once = "idle" =>
          \A k \in 1..Len(registered) :
              \E j \in 1..Len(closers) : closers[j].id = registered[k]
    /\ once # "idle" =>
          \A id \in RegisteredBefore :
              /\ \E j \in 1..Len(atBegin) : atBegin[j].id = id
              /\ once = "done" => Invoked(id) = 1

\* C19: when the duplex socket's Close fails with e, the one caller that runs
\* the close sequence receives e and every other call of Close, concurrent or
\* later, receives nil: whoever holds a result other than nil is the caller
\* that ran the sequence, holding what the sequence captured, and that caller
\* received what the duplex socket's Close returned.
C19_OnlyRunnerGetsError ==
    /\ \A p \in Callers :
          ret[p] \notin {"-", "nil"} => (p = loop.by /\ ret[p] = loop.out)
    /\ (once = "done" /\ ~clobbered) => (Len(closed) = 1 /\ loop.out = closed[1])

\* the duplex socket's Close failed with EOF: the caller that ran the sequence
\* holds EOF, the other caller nil
C19_Witness ==
    /\ once = "done" /\ closed = <<"EOF">>
    /\ ret[loop.by] = "EOF"
    /\ \E p \in Callers : p # loop.by /\ ret[p] = "nil"

\* the hooks handed to OnClose after the close sequence had ended
LateIds ==
    {closers[j].id : j \in {i \in 1..Len(closers) : closers[i].late}}
        \cup {fn[p].id : p \in {q \in Callers : fn[q].late}}

\* C20: a hook registered after the close sequence has run is never invoked,
\* not by its registration and not by a later Close; and OnClose(nil) leaves
\* the hook list as it is: the list never holds the nil func.
C20_LateHookNeverInvoked ==
    /\ \A id \in LateIds : Invoked(id) = 0
    /\ \A j \in 1..Len(closers) : closers[j].kind \in HookKinds

\* the sequence invoked a hook and ended; a hook registered afterwards is in
\* the list, has not been invoked, and a Close called since returned nil
C20_Witness ==
    /\ once = "done" /\ Len(hookLog) = 1
    /\ \E j \in 1..Len(closers) : closers[j].late /\ Invoked(closers[j].id) = 0
    /\ ret[loop.by] = "nil"
    /\ \A p \in Callers : pc[p] = "idle"

====
